---- MODULE Spec2Model ----
(***************************************************************************)
(* git-branch-weight: the unmerged-object collection and the weight        *)
(* aggregation of src/objects.rs (analyze_branches, merge_branch_objects,  *)
(* calculate_weights) over the GitOps trait of src/git.rs.                 *)
(*                                                                         *)
(* Branch indices are 0-based as in the code (enumerate(), u32); the name  *)
(* of branch idx is branch_names[idx + 1] because TLA+ sequences start at  *)
(* 1.  Sizes stay far below 2^64 in every checked state, so the u64        *)
(* additions are modelled without wrap-around.                             *)
(***************************************************************************)
EXTENDS Integers, Sequences, FiniteSets, TLC

\* ------------------------------------------------------------------ bounds
MaxBranches == 2
MaxSize == 1
NumThreads == 2
MaxLines == 4
PipeCap == 1

\* Object ids and branch names the inputs are drawn from.
Oids == {"x", "y"}
AllNames == <<"a", "b", "c", "d", "e">>
Sizes == 0 .. MaxSize

\* A HashMap<String, u64>: a function from a set of object ids to sizes.
BlobMaps == UNION {[S -> Sizes] : S \in SUBSET Oids}
EmptyMap == [o \in {} |-> 0]

\* What one invocation of RealGit::get_unmerged_blobs meets: whether both
\* processes could be spawned, the exit status of the processes, and the blob
\* lines the probe printed before end of stream.
PipelineRuns ==
    {[spawned |-> FALSE, exit |-> 0, blobs |-> EmptyMap]}
        \cup [spawned : {TRUE}, exit : {0, 1}, blobs : BlobMaps]

VARIABLES
    gitBranches,    \* what git.get_branches returns: Err, or Ok(branch names)
    gitRuns,        \* per branch index, what its pipeline meets (a PipelineRuns)
    pc,             \* position of analyze_branches
    branch_names,   \* local of analyze_branches
    task,           \* per branch index: "idle", "running", "done" (rayon job)
    taskOut,        \* per branch index: the filter_map closure's Option
    completion,     \* branch indices in the order their tasks completed
    partial_maps,   \* the collected Vec<(u32, FxHashMap)>
    object_map,     \* the merged FxHashMap<String, ObjectInfo>
    results,        \* the Vec<BranchWeight>
    ret,            \* "none", "Ok" or "Err": what analyze_branches returned
    calls           \* history: per branch index, the calls of get_unmerged_blobs

runVars == <<gitBranches, gitRuns, pc, branch_names, task, taskOut, completion,
             partial_maps, object_map, results, ret, calls>>

\* One invocation of RealGit::get_unmerged_blobs (src/git.rs), with its two
\* child processes, its three pipes and its writer thread.
VARIABLES
    revInput,       \* the lines git rev-list prints when it runs to its end
    canSpawn,       \* [rev, cat]: whether each Command::spawn succeeds
    mainPc,         \* position of the calling thread in get_unmerged_blobs
    rev_list,       \* the rev-list child: "none", "running", "exited", "reaped"
    cat_file,       \* the cat-file child: "none", "running", "exited", "reaped"
    exitStatus,     \* [rev, cat]: exit status of each child once it has exited
    revToPrint,     \* the lines rev-list has not printed yet
    rev_stdout,     \* pipe rev-list -> writer thread: lines in flight
    revReadOpen,    \* whether the read end of rev_stdout is still open
    writer,         \* the writer thread: "none", "reading", "writing", "done"
    writerOid,      \* the id the writer thread is about to write
    cat_stdin,      \* pipe writer thread -> cat-file: ids in flight
    stdinOpen,      \* whether the write end of cat_stdin is still open
    catPending,     \* the answer cat-file has computed and not yet printed
    cat_stdout,     \* pipe cat-file -> calling thread: lines in flight
    blobs,          \* the HashMap<String, u64> being filled
    pipeRet,        \* "none", "Ok" or "Err": what get_unmerged_blobs returned
    repo,           \* object id -> the type and size tokens cat-file prints
    linesRead,      \* history: the lines the writer thread has read
    idsWritten,     \* history: the ids the writer thread has written
    probeOut        \* history: the lines cat-file has printed

pipeVars == <<revInput, canSpawn, mainPc, rev_list, cat_file, exitStatus,
              revToPrint, rev_stdout, revReadOpen, writer, writerOid,
              cat_stdin, stdinOpen, catPending, cat_stdout, blobs, pipeRet,
              repo, linesRead, idsWritten, probeOut>>

\* One run of main (src/main.rs).
VARIABLES
    cliIn,          \* the arguments and what the environment answers
    cliPc,          \* position of main
    cliLog,         \* what main has done so far
    cliRet          \* "none", "Ok" or "Err": what main returned

cliVars == <<cliIn, cliPc, cliLog, cliRet>>

\* One call of format_size_mb (src/report.rs).
VARIABLES
    fmtSize,        \* the argument
    fmtOut          \* the returned string, None before the call

fmtVars == <<fmtSize, fmtOut>>

\* One call of analyze_branch_details (src/objects.rs).
VARIABLES
    detIn,          \* the arguments and what get_unmerged_commits answers
    detOut          \* the returned Vec<BranchDetail>, None before the call

detVars == <<detIn, detOut>>

\* The weight of one commit: get_unmerged_commits on it, then the sum.
VARIABLES
    cmIn,           \* the diff-tree entries of the commit and the blob sizes
    cmOut           \* position, the blob ids collected, the CommitBlobs, the weight

cmVars == <<cmIn, cmOut>>

\* The revisions both analyses are given for the branches of a repository.
VARIABLES
    refsIn,         \* the refs of the repository: refname -> tip
    refPc,          \* position: "list", "blobs", "details", "done", and the branch index
    refLog          \* the calls made so far, with the revisions passed

refVars == <<refsIn, refPc, refLog>>

auxVars == <<cliVars, fmtVars, detVars, cmVars, refVars>>

vars == <<runVars, pipeVars, auxVars>>

None == [some |-> FALSE]
Some(v) == [some |-> TRUE, val |-> v]

Indices(n) == 0 .. (n - 1)

\* --------------------------------------------------------- pure functions

\* GitOps::get_unmerged_blobs as RealGit implements it: Err when a spawn
\* fails, otherwise Ok(blobs); the exit statuses are discarded (let _ = wait()).
get_unmerged_blobs(run) ==
    IF run.spawned THEN [ok |-> TRUE, val |-> run.blobs] ELSE [ok |-> FALSE]

\* Faulty variant: an empty map is handed on as well.
FilterMapClosure_KeepsEmpty(i, run) ==
    LET r == get_unmerged_blobs(run)
    IN  IF r.ok THEN Some(<<i, r.val>>) ELSE None

\* The closure given to filter_map: .ok().filter(|m| !m.is_empty()).map(..)
FilterMapClosure(i, run) ==
    LET r == get_unmerged_blobs(run)
    IN  IF r.ok /\ DOMAIN r.val # {} THEN Some(<<i, r.val>>) ELSE None

\* rayon's collect() of the filter_map: the Some values in index order.
RECURSIVE CollectFrom(_, _, _)
CollectFrom(out, i, n) ==
    IF i >= n THEN <<>>
    ELSE (IF out[i].some THEN <<out[i].val>> ELSE <<>>) \o CollectFrom(out, i + 1, n)

\* Faulty variant: the same values in the order the tasks completed.
RECURSIVE CollectCompletionOrder(_, _)
CollectCompletionOrder(out, order) ==
    IF order = <<>> THEN <<>>
    ELSE (IF out[Head(order)].some THEN <<out[Head(order)].val>> ELSE <<>>)
             \o CollectCompletionOrder(out, Tail(order))

\* Faulty variant: the pairs numbered after the filter (filter_map before
\* enumerate).
RECURSIVE Renumber(_, _)
Renumber(pm, k) ==
    IF pm = <<>> THEN <<>>
    ELSE <<(<<k, Head(pm)[2]>>)>> \o Renumber(Tail(pm), k + 1)

\* Faulty variant: collect() in completion order.
Collect_CompletionOrder(out, order, n) == CollectCompletionOrder(out, order)

\* Faulty variant: collect() with indices counted after the filter.
Collect_EnumerateAfterFilter(out, order, n) == Renumber(CollectFrom(out, 0, n), 0)

Collect(out, order, n) == CollectFrom(out, 0, n)

\* Faulty variant: a later sighting overwrites the size.
MergeOne_Overwrites(om, branch_idx, branch_objects) ==
    [o \in DOMAIN om \cup DOMAIN branch_objects |->
        IF o \in DOMAIN om
        THEN IF o \in DOMAIN branch_objects
             THEN [size |-> branch_objects[o], branches |-> om[o].branches \cup {branch_idx}]
             ELSE om[o]
        ELSE [size |-> branch_objects[o], branches |-> {branch_idx}]]

\* One iteration of the outer loop of merge_branch_objects: entry(oid)
\* .and_modify(insert branch_idx).or_insert_with(ObjectInfo {size, {branch_idx}})
MergeOne(om, branch_idx, branch_objects) ==
    [o \in DOMAIN om \cup DOMAIN branch_objects |->
        IF o \in DOMAIN om
        THEN IF o \in DOMAIN branch_objects
             THEN [om[o] EXCEPT !.branches = @ \cup {branch_idx}]
             ELSE om[o]
        ELSE [size |-> branch_objects[o], branches |-> {branch_idx}]]

RECURSIVE MergeFrom(_, _)
MergeFrom(om, pm) ==
    IF pm = <<>> THEN om
    ELSE MergeFrom(MergeOne(om, Head(pm)[1], Head(pm)[2]), Tail(pm))

merge_branch_objects(pm) == MergeFrom(EmptyMap, pm)

RECURSIVE SumSize(_, _)
SumSize(om, S) ==
    IF S = {} THEN 0
    ELSE LET o == CHOOSE o \in S : TRUE
         IN  om[o].size + SumSize(om, S \ {o})

\* Faulty variant: every object counts as shared.
IsShared_AnyContributor(info) == Cardinality(info.branches) >= 1

IsShared(info) == Cardinality(info.branches) > 1

\* branch_stats[idx] after the loop over object_map.values()
BranchStats(om, idx) ==
    LET U == {o \in DOMAIN om : idx \in om[o].branches /\ ~IsShared(om[o])}
        S == {o \in DOMAIN om : idx \in om[o].branches /\ IsShared(om[o])}
    IN  <<SumSize(om, U), SumSize(om, S), Cardinality(U), Cardinality(S)>>

\* Faulty variant: no branch is filtered out.
KeepStats_All(st) == TRUE

\* .filter(|(_, (u, s, _, _))| *u > 0 || *s > 0)
KeepStats(st) == st[1] > 0 \/ st[2] > 0

\* Faulty variant: total_size leaves the shared part out.
MakeBranchWeight_TotalIsUnique(name, st) ==
    [branch |-> name,
     unique_size |-> st[1],
     shared_size |-> st[2],
     total_size |-> st[1],
     object_count |-> st[3] + st[4],
     unique_count |-> st[3],
     shared_count |-> st[4]]

\* .map(|(i, (..))| BranchWeight { .. })
MakeBranchWeight(name, st) ==
    [branch |-> name,
     unique_size |-> st[1],
     shared_size |-> st[2],
     total_size |-> st[1] + st[2],
     object_count |-> st[3] + st[4],
     unique_count |-> st[3],
     shared_count |-> st[4]]

RECURSIVE FilterMapStats(_, _, _)
FilterMapStats(names, om, i) ==
    IF i >= Len(names) THEN <<>>
    ELSE (IF KeepStats(BranchStats(om, i))
          THEN <<MakeBranchWeight(names[i + 1], BranchStats(om, i))>>
          ELSE <<>>) \o FilterMapStats(names, om, i + 1)

\* Faulty variant: equal totals change places.
ComesBefore_TiesSwapped(a, b) == a.total_size >= b.total_size

\* The comparator of results.sort_by, b.total_size.cmp(&a.total_size): a is
\* ordered before b iff its total_size is greater.
ComesBefore(a, b) == a.total_size > b.total_size

\* Vec::sort_by is a stable sort: x goes after every element it does not
\* strictly precede.
RECURSIVE InsertSorted(_, _)
InsertSorted(s, x) ==
    IF s = <<>> THEN <<x>>
    ELSE IF ComesBefore(x, Head(s)) THEN <<x>> \o s
         ELSE <<Head(s)>> \o InsertSorted(Tail(s), x)

RECURSIVE SortFrom(_, _)
SortFrom(acc, s) ==
    IF s = <<>> THEN acc ELSE SortFrom(InsertSorted(acc, Head(s)), Tail(s))

sort_by(s) == SortFrom(<<>>, s)

calculate_weights(names, om) == sort_by(FilterMapStats(names, om, 0))

\* --------------------------------------------------------------- the run

BranchLists == {SubSeq(AllNames, 1, n) : n \in 0 .. MaxBranches}

\* No invocation of the pipeline is under way.
PipeIdle ==
    /\ revInput = <<>>
    /\ canSpawn = [rev |-> TRUE, cat |-> TRUE]
    /\ mainPc = "idle"
    /\ rev_list = "none"
    /\ cat_file = "none"
    /\ exitStatus = [rev |-> 0, cat |-> 0]
    /\ revToPrint = <<>>
    /\ rev_stdout = <<>>
    /\ revReadOpen = FALSE
    /\ writer = "none"
    /\ writerOid = ""
    /\ cat_stdin = <<>>
    /\ stdinOpen = FALSE
    /\ catPending = <<>>
    /\ cat_stdout = <<>>
    /\ blobs = EmptyMap
    /\ pipeRet = "none"
    /\ repo = EmptyMap
    /\ linesRead = <<>>
    /\ idsWritten = <<>>
    /\ probeOut = <<>>

\* main, format_size_mb, analyze_branch_details, get_unmerged_commits are not
\* running, and no repository is looked at.
CliIdle == cliIn = <<>> /\ cliPc = "idle" /\ cliLog = <<>> /\ cliRet = "none"
FmtIdle == fmtSize = 0 /\ fmtOut = None
DetIdle == detIn = <<>> /\ detOut = None
CmIdle == cmIn = <<>> /\ cmOut = <<>>
RefIdle == refsIn = <<>> /\ refPc = [at |-> "idle", i |-> 0] /\ refLog = <<>>

\* No other operation is under way.
AuxIdle == CliIdle /\ FmtIdle /\ DetIdle /\ CmIdle /\ RefIdle

\* analyze_branches is not running.
RunIdle ==
    /\ gitBranches = [ok |-> FALSE, val |-> <<>>]
    /\ gitRuns = <<>>
    /\ pc = "idle"
    /\ branch_names = <<>>
    /\ task = <<>>
    /\ taskOut = <<>>
    /\ completion = <<>>
    /\ partial_maps = <<>>
    /\ object_map = EmptyMap
    /\ results = <<>>
    /\ ret = "none"
    /\ calls = <<>>

Init ==
    /\ PipeIdle
    /\ AuxIdle
    /\ gitBranches \in {[ok |-> FALSE, val |-> <<>>]}
                          \cup [ok : {TRUE}, val : BranchLists]
    /\ gitRuns \in [Indices(Len(gitBranches.val)) -> PipelineRuns]
    /\ pc = "start"
    /\ branch_names = <<>>
    /\ task = <<>>
    /\ taskOut = <<>>
    /\ completion = <<>>
    /\ partial_maps = <<>>
    /\ object_map = EmptyMap
    /\ results = <<>>
    /\ ret = "none"
    /\ calls = <<>>

\* let branches = git.get_branches(repo_path)?;
GetBranchesErr ==
    /\ pc = "start"
    /\ ~gitBranches.ok
    /\ pc' = "done"
    /\ ret' = "Err"
    /\ UNCHANGED <<gitBranches, gitRuns, branch_names, task, taskOut,
                   completion, partial_maps, object_map, results>>
    /\ UNCHANGED calls
    /\ UNCHANGED <<pipeVars, auxVars>>

\* Faulty variant: no early return for an empty branch list.
ReturnsEarly_Never(branches) == FALSE

\* if branch_count == 0 { return Ok(Vec::new()); }
ReturnsEarly(branches) == Len(branches) = 0

GetBranchesOk ==
    /\ pc = "start"
    /\ gitBranches.ok
    /\ branch_names' = gitBranches.val
    /\ task' = [i \in Indices(Len(gitBranches.val)) |-> "idle"]
    /\ taskOut' = [i \in Indices(Len(gitBranches.val)) |-> None]
    /\ IF ReturnsEarly(gitBranches.val)
       THEN pc' = "done" /\ ret' = "Ok"
       ELSE pc' = "collect" /\ ret' = ret
    /\ UNCHANGED <<gitBranches, gitRuns, completion, partial_maps,
                   object_map, results>>
    /\ calls' = [i \in Indices(Len(gitBranches.val)) |-> 0]
    /\ UNCHANGED <<pipeVars, auxVars>>

\* A worker of the pool takes the job of branch i and calls get_unmerged_blobs.
StartTask(i) ==
    /\ pc = "collect"
    /\ task[i] = "idle"
    /\ Cardinality({j \in DOMAIN task : task[j] = "running"}) < NumThreads
    /\ task' = [task EXCEPT ![i] = "running"]
    /\ UNCHANGED <<gitBranches, gitRuns, pc, branch_names, taskOut,
                   completion, partial_maps, object_map, results, ret>>
    /\ calls' = [calls EXCEPT ![i] = @ + 1]
    /\ UNCHANGED <<pipeVars, auxVars>>

\* Faulty variant: a call that failed is made once more.
FinishTask_Retries(i) ==
    /\ pc = "collect"
    /\ task[i] = "running"
    /\ IF ~get_unmerged_blobs(gitRuns[i]).ok /\ calls[i] < 2
       THEN /\ task' = [task EXCEPT ![i] = "idle"]
            /\ UNCHANGED <<taskOut, completion>>
       ELSE /\ task' = [task EXCEPT ![i] = "done"]
            /\ taskOut' = [taskOut EXCEPT ![i] = FilterMapClosure(i, gitRuns[i])]
            /\ completion' = Append(completion, i)
    /\ UNCHANGED <<gitBranches, gitRuns, pc, branch_names, partial_maps,
                   object_map, results, ret>>
    /\ UNCHANGED calls
    /\ UNCHANGED <<pipeVars, auxVars>>

\* get_unmerged_blobs returns and the closure yields its Option.
FinishTask(i) ==
    /\ pc = "collect"
    /\ task[i] = "running"
    /\ task' = [task EXCEPT ![i] = "done"]
    /\ taskOut' = [taskOut EXCEPT ![i] = FilterMapClosure(i, gitRuns[i])]
    /\ completion' = Append(completion, i)
    /\ UNCHANGED <<gitBranches, gitRuns, pc, branch_names, partial_maps,
                   object_map, results, ret>>
    /\ UNCHANGED calls
    /\ UNCHANGED <<pipeVars, auxVars>>

\* Faulty variant: collect() returns as soon as one job has finished.
CollectDone_NoBarrier ==
    /\ pc = "collect"
    /\ \E i \in DOMAIN task : task[i] = "done"
    /\ partial_maps' = Collect(taskOut, completion, Len(branch_names))
    /\ pc' = "merge"
    /\ UNCHANGED <<gitBranches, gitRuns, branch_names, task, taskOut,
                   completion, object_map, results, ret>>
    /\ UNCHANGED calls
    /\ UNCHANGED <<pipeVars, auxVars>>

\* .collect() returns once every job has finished.
CollectDone ==
    /\ pc = "collect"
    /\ \A i \in DOMAIN task : task[i] = "done"
    /\ partial_maps' = Collect(taskOut, completion, Len(branch_names))
    /\ pc' = "merge"
    /\ UNCHANGED <<gitBranches, gitRuns, branch_names, task, taskOut,
                   completion, object_map, results, ret>>
    /\ UNCHANGED calls
    /\ UNCHANGED <<pipeVars, auxVars>>

\* Faulty variant: the vector is gone through from its end.
MergeStep_FromBack ==
    /\ pc = "merge"
    /\ partial_maps # <<>>
    /\ object_map' = MergeOne(object_map, partial_maps[Len(partial_maps)][1],
                                          partial_maps[Len(partial_maps)][2])
    /\ partial_maps' = SubSeq(partial_maps, 1, Len(partial_maps) - 1)
    /\ UNCHANGED <<gitBranches, gitRuns, pc, branch_names, task, taskOut,
                   completion, results, ret>>
    /\ UNCHANGED calls
    /\ UNCHANGED <<pipeVars, auxVars>>

\* merge_branch_objects(partial_maps), one iteration of its outer loop: the
\* loop takes the next (branch_idx, branch_objects) out of the vector.
MergeStep ==
    /\ pc = "merge"
    /\ partial_maps # <<>>
    /\ object_map' = MergeOne(object_map, Head(partial_maps)[1], Head(partial_maps)[2])
    /\ partial_maps' = Tail(partial_maps)
    /\ UNCHANGED <<gitBranches, gitRuns, pc, branch_names, task, taskOut,
                   completion, results, ret>>
    /\ UNCHANGED calls
    /\ UNCHANGED <<pipeVars, auxVars>>

\* The loop is over: merge_branch_objects returns object_map.
MergeReturn ==
    /\ pc = "merge"
    /\ partial_maps = <<>>
    /\ pc' = "weights"
    /\ UNCHANGED <<gitBranches, gitRuns, branch_names, task, taskOut,
                   completion, partial_maps, object_map, results, ret>>
    /\ UNCHANGED calls
    /\ UNCHANGED <<pipeVars, auxVars>>

\* let results = calculate_weights(&branch_names, &object_map); Ok(results)
CalculateWeights ==
    /\ pc = "weights"
    /\ results' = calculate_weights(branch_names, object_map)
    /\ pc' = "done"
    /\ ret' = "Ok"
    /\ UNCHANGED <<gitBranches, gitRuns, branch_names, task, taskOut,
                   completion, partial_maps, object_map>>
    /\ UNCHANGED calls
    /\ UNCHANGED <<pipeVars, auxVars>>

Next ==
    \/ GetBranchesErr
    \/ GetBranchesOk
    \/ \E i \in DOMAIN task : StartTask(i)
    \/ \E i \in DOMAIN task : FinishTask(i)
    \/ CollectDone
    \/ MergeStep
    \/ MergeReturn
    \/ CalculateWeights

Spec == Init /\ [][Next]_vars

\* ------------------------------------ RealGit::get_unmerged_blobs, one call

\* A path with a byte sequence that is not UTF-8: rev-list --objects prints
\* path names as they are stored.
NotUtf8 == "f<ff>"

\* A line is the sequence of its whitespace-separated tokens (what
\* split_whitespace yields); <<>> is a blank line.  rev-list --objects prints
\* "<oid>" for a commit and "<oid> <path>" for a tree or a blob.
RevLines == {<<>>, <<"c1">>, <<"b1", "f">>}

\* The objects of the repository: type and %(objectsize:disk) as printed.
RepoObjects == [o \in {"c1", "b1"} |->
                   IF o = "c1" THEN <<"commit", "2">> ELSE <<"blob", "1">>]

\* cat-file --batch-check=%(objectname) %(objecttype) %(objectsize:disk)
BatchCheckLine(oid) ==
    IF oid \in DOMAIN repo THEN <<oid>> \o repo[oid]
    ELSE <<oid, "missing">>

\* str::parse::<u64> on the size tokens that occur.
Decimal == [t \in {"0", "1", "2"} |-> IF t = "0" THEN 0 ELSE IF t = "1" THEN 1 ELSE 2]
ParseU64(tok) == IF tok \in DOMAIN Decimal THEN Some(Decimal[tok]) ELSE None

\* Faulty variant: the object type is not looked at.
InsertParsed_AnyType(map, parts) ==
    IF Len(parts) >= 3 /\ ParseU64(parts[3]).some
    THEN [o \in DOMAIN map \cup {parts[1]} |->
             IF o = parts[1] THEN ParseU64(parts[3]).val ELSE map[o]]
    ELSE map

\* The body of the consuming loop: a line of at least three tokens whose second
\* is "blob" and whose third parses inserts (parts[0], size).
InsertParsed(map, parts) ==
    IF Len(parts) >= 3 /\ parts[2] = "blob" /\ ParseU64(parts[3]).some
    THEN [o \in DOMAIN map \cup {parts[1]} |->
             IF o = parts[1] THEN ParseU64(parts[3]).val ELSE map[o]]
    ELSE map

RevInputs == UNION {[1 .. n -> RevLines] : n \in 0 .. MaxLines}

\* The state get_unmerged_blobs starts in, but for its inputs.
PipeStart ==
    /\ mainPc = "spawn_rev"
    /\ rev_list = "none"
    /\ cat_file = "none"
    /\ exitStatus = [rev |-> 0, cat |-> 0]
    /\ revToPrint = <<>>
    /\ rev_stdout = <<>>
    /\ revReadOpen = FALSE
    /\ writer = "none"
    /\ writerOid = ""
    /\ cat_stdin = <<>>
    /\ stdinOpen = FALSE
    /\ catPending = <<>>
    /\ cat_stdout = <<>>
    /\ blobs = EmptyMap
    /\ pipeRet = "none"
    /\ linesRead = <<>>
    /\ idsWritten = <<>>
    /\ probeOut = <<>>

PipeInit ==
    /\ RunIdle
    /\ AuxIdle
    /\ repo = RepoObjects
    /\ revInput \in RevInputs
    /\ canSpawn \in [rev : BOOLEAN, cat : BOOLEAN]
    /\ PipeStart

\* Command::new("git").args(["rev-list", ..]).spawn().context(..)?
SpawnRevOk ==
    /\ mainPc = "spawn_rev"
    /\ canSpawn.rev
    /\ rev_list' = "running"
    /\ revToPrint' = revInput
    /\ revReadOpen' = TRUE
    /\ mainPc' = "spawn_cat"
    /\ UNCHANGED <<revInput, canSpawn, cat_file, exitStatus, rev_stdout, writer,
                   writerOid, cat_stdin, stdinOpen, catPending, cat_stdout,
                   blobs, pipeRet>>
    /\ UNCHANGED <<repo, linesRead, idsWritten, probeOut>>
    /\ UNCHANGED <<runVars, auxVars>>

SpawnRevErr ==
    /\ mainPc = "spawn_rev"
    /\ ~canSpawn.rev
    /\ mainPc' = "returned"
    /\ pipeRet' = "Err"
    /\ UNCHANGED <<revInput, canSpawn, rev_list, cat_file, exitStatus,
                   revToPrint, rev_stdout, revReadOpen, writer, writerOid,
                   cat_stdin, stdinOpen, catPending, cat_stdout, blobs>>
    /\ UNCHANGED <<repo, linesRead, idsWritten, probeOut>>
    /\ UNCHANGED <<runVars, auxVars>>

\* cat-file is spawned, the three pipe ends are taken and the writer thread is
\* started.
SpawnCatOk ==
    /\ mainPc = "spawn_cat"
    /\ canSpawn.cat
    /\ cat_file' = "running"
    /\ stdinOpen' = TRUE
    /\ writer' = "reading"
    /\ mainPc' = "read"
    /\ UNCHANGED <<revInput, canSpawn, rev_list, exitStatus, revToPrint,
                   rev_stdout, revReadOpen, writerOid, cat_stdin, catPending,
                   cat_stdout, blobs, pipeRet>>
    /\ UNCHANGED <<repo, linesRead, idsWritten, probeOut>>
    /\ UNCHANGED <<runVars, auxVars>>

\* The ? after the second spawn returns the error; the rev_list Child is
\* dropped, which closes its stdout handle and neither kills nor waits.
SpawnCatErr ==
    /\ mainPc = "spawn_cat"
    /\ ~canSpawn.cat
    /\ revReadOpen' = FALSE
    /\ mainPc' = "returned"
    /\ pipeRet' = "Err"
    /\ UNCHANGED <<revInput, canSpawn, rev_list, cat_file, exitStatus,
                   revToPrint, rev_stdout, writer, writerOid, cat_stdin,
                   stdinOpen, catPending, cat_stdout, blobs>>
    /\ UNCHANGED <<repo, linesRead, idsWritten, probeOut>>
    /\ UNCHANGED <<runVars, auxVars>>

\* rev-list prints its next line; the write blocks while the pipe is full.
RevPrint ==
    /\ rev_list = "running"
    /\ revToPrint # <<>>
    /\ revReadOpen
    /\ Len(rev_stdout) < PipeCap
    /\ rev_stdout' = Append(rev_stdout, Head(revToPrint))
    /\ revToPrint' = Tail(revToPrint)
    /\ UNCHANGED <<revInput, canSpawn, mainPc, rev_list, cat_file, exitStatus,
                   revReadOpen, writer, writerOid, cat_stdin, stdinOpen,
                   catPending, cat_stdout, blobs, pipeRet>>
    /\ UNCHANGED <<repo, linesRead, idsWritten, probeOut>>
    /\ UNCHANGED <<runVars, auxVars>>

\* rev-list writes to a pipe nobody reads any more and dies of it.
RevBrokenPipe ==
    /\ rev_list = "running"
    /\ revToPrint # <<>>
    /\ ~revReadOpen
    /\ rev_list' = "exited"
    /\ exitStatus' = [exitStatus EXCEPT !.rev = 1]
    /\ revToPrint' = <<>>
    /\ UNCHANGED <<revInput, canSpawn, mainPc, cat_file, rev_stdout,
                   revReadOpen, writer, writerOid, cat_stdin, stdinOpen,
                   catPending, cat_stdout, blobs, pipeRet>>
    /\ UNCHANGED <<repo, linesRead, idsWritten, probeOut>>
    /\ UNCHANGED <<runVars, auxVars>>

\* rev-list has printed everything and exits.
RevExit ==
    /\ rev_list = "running"
    /\ revToPrint = <<>>
    /\ rev_list' = "exited"
    /\ UNCHANGED <<revInput, canSpawn, mainPc, cat_file, exitStatus, revToPrint,
                   rev_stdout, revReadOpen, writer, writerOid, cat_stdin,
                   stdinOpen, catPending, cat_stdout, blobs, pipeRet>>
    /\ UNCHANGED <<repo, linesRead, idsWritten, probeOut>>
    /\ UNCHANGED <<runVars, auxVars>>

\* rev-list fails part-way: it exits with a non-zero status, the rest unprinted.
RevExitsEarly ==
    /\ rev_list = "running"
    /\ revToPrint # <<>>
    /\ revReadOpen
    /\ rev_list' = "exited"
    /\ exitStatus' = [exitStatus EXCEPT !.rev = 1]
    /\ revToPrint' = <<>>
    /\ UNCHANGED <<revInput, canSpawn, mainPc, cat_file, rev_stdout,
                   revReadOpen, writer, writerOid, cat_stdin, stdinOpen,
                   catPending, cat_stdout, blobs, pipeRet>>
    /\ UNCHANGED <<repo, linesRead, idsWritten, probeOut>>
    /\ UNCHANGED <<runVars, auxVars>>

\* BufRead::lines yields Err for a line that is not valid UTF-8; the bytes of
\* the line are consumed and the iteration goes on with the next line.
ReadsOk(line) == \A k \in DOMAIN line : line[k] # NotUtf8

\* for line in reader.lines(): the next line, and its first token if it has
\* one; a line lines() yields as Err is passed over (if let Ok(line) = line).
WriterRead ==
    /\ writer = "reading"
    /\ rev_stdout # <<>>
    /\ rev_stdout' = Tail(rev_stdout)
    /\ IF ReadsOk(Head(rev_stdout)) /\ Head(rev_stdout) # <<>>
       THEN writer' = "writing" /\ writerOid' = Head(Head(rev_stdout))
       ELSE UNCHANGED <<writer, writerOid>>
    /\ UNCHANGED <<revInput, canSpawn, mainPc, rev_list, cat_file, exitStatus,
                   revToPrint, revReadOpen, cat_stdin, stdinOpen, catPending,
                   cat_stdout, blobs, pipeRet>>
    /\ linesRead' = Append(linesRead, Head(rev_stdout))
    /\ UNCHANGED <<repo, idsWritten, probeOut>>
    /\ UNCHANGED <<runVars, auxVars>>

\* let _ = writeln!(writer, "{}", oid): blocks while the pipe is full.
WriterWrite ==
    /\ writer = "writing"
    /\ cat_file = "running"
    /\ Len(cat_stdin) < PipeCap
    /\ cat_stdin' = Append(cat_stdin, writerOid)
    /\ writer' = "reading"
    /\ writerOid' = ""
    /\ UNCHANGED <<revInput, canSpawn, mainPc, rev_list, cat_file, exitStatus,
                   revToPrint, rev_stdout, revReadOpen, stdinOpen, catPending,
                   cat_stdout, blobs, pipeRet>>
    /\ idsWritten' = Append(idsWritten, writerOid)
    /\ UNCHANGED <<repo, linesRead, probeOut>>
    /\ UNCHANGED <<runVars, auxVars>>

\* The write fails because cat-file has gone; the error is discarded and the
\* loop goes on.
WriterWriteFails ==
    /\ writer = "writing"
    /\ cat_file # "running"
    /\ writer' = "reading"
    /\ writerOid' = ""
    /\ UNCHANGED <<revInput, canSpawn, mainPc, rev_list, cat_file, exitStatus,
                   revToPrint, rev_stdout, revReadOpen, cat_stdin, stdinOpen,
                   catPending, cat_stdout, blobs, pipeRet>>
    /\ UNCHANGED <<repo, linesRead, idsWritten, probeOut>>
    /\ UNCHANGED <<runVars, auxVars>>

\* End of the rev-list stream: the closure ends, dropping both pipe ends.
WriterEof ==
    /\ writer = "reading"
    /\ rev_stdout = <<>>
    /\ rev_list # "running"
    /\ writer' = "done"
    /\ stdinOpen' = FALSE
    /\ revReadOpen' = FALSE
    /\ UNCHANGED <<revInput, canSpawn, mainPc, rev_list, cat_file, exitStatus,
                   revToPrint, rev_stdout, writerOid, cat_stdin, catPending,
                   cat_stdout, blobs, pipeRet>>
    /\ UNCHANGED <<repo, linesRead, idsWritten, probeOut>>
    /\ UNCHANGED <<runVars, auxVars>>

\* cat-file reads one id and looks it up.
CatRead ==
    /\ cat_file = "running"
    /\ catPending = <<>>
    /\ cat_stdin # <<>>
    /\ catPending' = <<BatchCheckLine(Head(cat_stdin))>>
    /\ cat_stdin' = Tail(cat_stdin)
    /\ UNCHANGED <<revInput, canSpawn, mainPc, rev_list, cat_file, exitStatus,
                   revToPrint, rev_stdout, revReadOpen, writer, writerOid,
                   stdinOpen, cat_stdout, blobs, pipeRet>>
    /\ UNCHANGED <<repo, linesRead, idsWritten, probeOut>>
    /\ UNCHANGED <<runVars, auxVars>>

\* cat-file prints the answer; the write blocks while the pipe is full.
CatPrint ==
    /\ cat_file = "running"
    /\ catPending # <<>>
    /\ Len(cat_stdout) < PipeCap
    /\ cat_stdout' = Append(cat_stdout, Head(catPending))
    /\ catPending' = <<>>
    /\ UNCHANGED <<revInput, canSpawn, mainPc, rev_list, cat_file, exitStatus,
                   revToPrint, rev_stdout, revReadOpen, writer, writerOid,
                   cat_stdin, stdinOpen, blobs, pipeRet>>
    /\ probeOut' = Append(probeOut, Head(catPending))
    /\ UNCHANGED <<repo, linesRead, idsWritten>>
    /\ UNCHANGED <<runVars, auxVars>>

\* cat-file meets end of input and exits.
CatExit ==
    /\ cat_file = "running"
    /\ catPending = <<>>
    /\ cat_stdin = <<>>
    /\ ~stdinOpen
    /\ cat_file' = "exited"
    /\ UNCHANGED <<revInput, canSpawn, mainPc, rev_list, exitStatus, revToPrint,
                   rev_stdout, revReadOpen, writer, writerOid, cat_stdin,
                   stdinOpen, catPending, cat_stdout, blobs, pipeRet>>
    /\ UNCHANGED <<repo, linesRead, idsWritten, probeOut>>
    /\ UNCHANGED <<runVars, auxVars>>

\* cat-file fails before end of input: non-zero status, unread ids are lost.
CatExitsEarly ==
    /\ cat_file = "running"
    /\ stdinOpen \/ cat_stdin # <<>> \/ catPending # <<>>
    /\ cat_file' = "exited"
    /\ exitStatus' = [exitStatus EXCEPT !.cat = 1]
    /\ cat_stdin' = <<>>
    /\ catPending' = <<>>
    /\ UNCHANGED <<revInput, canSpawn, mainPc, rev_list, revToPrint, rev_stdout,
                   revReadOpen, writer, writerOid, stdinOpen, cat_stdout, blobs,
                   pipeRet>>
    /\ UNCHANGED <<repo, linesRead, idsWritten, probeOut>>
    /\ UNCHANGED <<runVars, auxVars>>

\* Faulty variant: the consuming loop starts only once the writer thread has
\* ended (forwarding and consuming in one sequential flow).
MainRead_AfterWriter ==
    /\ mainPc = "read"
    /\ writer = "done"
    /\ cat_stdout # <<>>
    /\ blobs' = InsertParsed(blobs, Head(cat_stdout))
    /\ cat_stdout' = Tail(cat_stdout)
    /\ UNCHANGED <<revInput, canSpawn, mainPc, rev_list, cat_file, exitStatus,
                   revToPrint, rev_stdout, revReadOpen, writer, writerOid,
                   cat_stdin, stdinOpen, catPending, pipeRet>>
    /\ UNCHANGED <<repo, linesRead, idsWritten, probeOut>>
    /\ UNCHANGED <<runVars, auxVars>>

\* for line in reader.lines() over cat_stdout: one line is read and parsed.
MainRead ==
    /\ mainPc = "read"
    /\ cat_stdout # <<>>
    /\ blobs' = InsertParsed(blobs, Head(cat_stdout))
    /\ cat_stdout' = Tail(cat_stdout)
    /\ UNCHANGED <<revInput, canSpawn, mainPc, rev_list, cat_file, exitStatus,
                   revToPrint, rev_stdout, revReadOpen, writer, writerOid,
                   cat_stdin, stdinOpen, catPending, pipeRet>>
    /\ UNCHANGED <<repo, linesRead, idsWritten, probeOut>>
    /\ UNCHANGED <<runVars, auxVars>>

\* End of the cat-file stream: the loop ends.
MainEof ==
    /\ mainPc = "read"
    /\ cat_stdout = <<>>
    /\ cat_file # "running"
    /\ mainPc' = "join"
    /\ UNCHANGED <<revInput, canSpawn, rev_list, cat_file, exitStatus,
                   revToPrint, rev_stdout, revReadOpen, writer, writerOid,
                   cat_stdin, stdinOpen, catPending, cat_stdout, blobs, pipeRet>>
    /\ UNCHANGED <<repo, linesRead, idsWritten, probeOut>>
    /\ UNCHANGED <<runVars, auxVars>>

\* Faulty variant: the writer thread is not joined.
JoinWriter_Detached ==
    /\ mainPc = "join"
    /\ mainPc' = "wait_rev"
    /\ UNCHANGED <<revInput, canSpawn, rev_list, cat_file, exitStatus,
                   revToPrint, rev_stdout, revReadOpen, writer, writerOid,
                   cat_stdin, stdinOpen, catPending, cat_stdout, blobs, pipeRet>>
    /\ UNCHANGED <<repo, linesRead, idsWritten, probeOut>>
    /\ UNCHANGED <<runVars, auxVars>>

\* let _ = writer_handle.join();
JoinWriter ==
    /\ mainPc = "join"
    /\ writer = "done"
    /\ mainPc' = "wait_rev"
    /\ UNCHANGED <<revInput, canSpawn, rev_list, cat_file, exitStatus,
                   revToPrint, rev_stdout, revReadOpen, writer, writerOid,
                   cat_stdin, stdinOpen, catPending, cat_stdout, blobs, pipeRet>>
    /\ UNCHANGED <<repo, linesRead, idsWritten, probeOut>>
    /\ UNCHANGED <<runVars, auxVars>>

\* let _ = rev_list.wait();
WaitRev ==
    /\ mainPc = "wait_rev"
    /\ rev_list = "exited"
    /\ rev_list' = "reaped"
    /\ mainPc' = "wait_cat"
    /\ UNCHANGED <<revInput, canSpawn, cat_file, exitStatus, revToPrint,
                   rev_stdout, revReadOpen, writer, writerOid, cat_stdin,
                   stdinOpen, catPending, cat_stdout, blobs, pipeRet>>
    /\ UNCHANGED <<repo, linesRead, idsWritten, probeOut>>
    /\ UNCHANGED <<runVars, auxVars>>

\* let _ = cat_file.wait(); Ok(blobs)
WaitCat ==
    /\ mainPc = "wait_cat"
    /\ cat_file = "exited"
    /\ cat_file' = "reaped"
    /\ mainPc' = "returned"
    /\ pipeRet' = "Ok"
    /\ UNCHANGED <<revInput, canSpawn, rev_list, exitStatus, revToPrint,
                   rev_stdout, revReadOpen, writer, writerOid, cat_stdin,
                   stdinOpen, catPending, cat_stdout, blobs>>
    /\ UNCHANGED <<repo, linesRead, idsWritten, probeOut>>
    /\ UNCHANGED <<runVars, auxVars>>

PipeNext ==
    \/ SpawnRevOk
    \/ SpawnRevErr
    \/ SpawnCatOk
    \/ SpawnCatErr
    \/ RevPrint
    \/ RevBrokenPipe
    \/ RevExit
    \/ RevExitsEarly
    \/ WriterRead
    \/ WriterWrite
    \/ WriterWriteFails
    \/ WriterEof
    \/ CatRead
    \/ CatPrint
    \/ CatExit
    \/ CatExitsEarly
    \/ MainRead
    \/ MainEof
    \/ JoinWriter
    \/ WaitRev
    \/ WaitCat

PipeSpec == PipeInit /\ [][PipeNext]_vars

\* The operating system schedules every runnable process and thread: each step
\* that stays possible is eventually taken.  The two failures part-way are
\* the only steps nothing obliges to happen.
PipeFairness ==
    /\ WF_vars(SpawnRevOk) /\ WF_vars(SpawnRevErr)
    /\ WF_vars(SpawnCatOk) /\ WF_vars(SpawnCatErr)
    /\ WF_vars(RevPrint) /\ WF_vars(RevBrokenPipe) /\ WF_vars(RevExit)
    /\ WF_vars(WriterRead) /\ WF_vars(WriterWrite)
    /\ WF_vars(WriterWriteFails) /\ WF_vars(WriterEof)
    /\ WF_vars(CatRead) /\ WF_vars(CatPrint) /\ WF_vars(CatExit)
    /\ WF_vars(MainRead) /\ WF_vars(MainEof)
    /\ WF_vars(JoinWriter) /\ WF_vars(WaitRev) /\ WF_vars(WaitCat)

FairPipeSpec == PipeSpec /\ PipeFairness

\* --------------------------------------------- the probe's answers, at large

ProbeLines == 2

\* What cat-file --batch-check can print after the object name: a blob with a
\* size, a blob line whose size token is no number, the other object types,
\* and a line with more than three tokens.
ProbeAnswers ==
    {<<"blob", "1">>, <<"blob", "x">>, <<"tree", "1">>, <<"commit", "2">>,
     <<"tag", "1">>, <<"blob", "2", "extra">>}

\* The repositories: the ids rev-list names may be objects of any of these
\* kinds, or unknown to cat-file, which then prints "<id> missing".
ProbeRepos == UNION {[D -> ProbeAnswers] : D \in SUBSET {"c1", "b1"}}

ProbeRevInputs ==
    UNION {[1 .. n -> {<<"c1">>, <<"b1", "f">>, <<"b1", NotUtf8>>}] : n \in 0 .. ProbeLines}

\* get_unmerged_blobs is called on any of these repositories.
ProbeInit ==
    /\ RunIdle
    /\ AuxIdle
    /\ repo \in ProbeRepos
    /\ revInput \in ProbeRevInputs
    /\ canSpawn \in [rev : BOOLEAN, cat : BOOLEAN]
    /\ PipeStart

ProbeSpec == ProbeInit /\ [][PipeNext]_vars

\* ------------------------------------------------------------------- main

\* The names detect_default_branch tries, in this order.
Candidates == <<"refs/heads/master", "refs/heads/main">>

\* The files write_reports writes, in this order.
ReportFiles == <<"branches_full.json", "branches.json", "summary.json">>

\* The command line and the environment of a run: whether args.repo resolves,
\* the --branch option, what git rev-parse --verify does for each candidate
\* ("ok", "fail": exit status not 0, "error": git could not be run), what
\* analyze_branches returns, whether the output directory can be created and
\* how many report files can be written.
CliInputs ==
    [resolves : BOOLEAN,
     branch : {<<>>, <<"dev">>},
     revParse : [1 .. Len(Candidates) -> {"ok", "fail", "error"}],
     analyze : {"Ok", "Err"},
     mkdir : BOOLEAN,
     writable : 0 .. Len(ReportFiles)]

CliInit ==
    /\ RunIdle
    /\ PipeIdle
    /\ FmtIdle /\ DetIdle /\ CmIdle /\ RefIdle
    /\ cliIn \in CliInputs
    /\ cliPc = [at |-> "canonicalize", k |-> 0, default_branch |-> ""]
    /\ cliLog = <<>>
    /\ cliRet = "none"

notCli == <<runVars, pipeVars, fmtVars, detVars, cmVars, refVars>>

\* main returns the error: nothing more is done.
Abort ==
    /\ cliPc' = [cliPc EXCEPT !.at = "returned"]
    /\ cliRet' = "Err"

\* let repo_path = args.repo.canonicalize()?;
Canonicalize ==
    /\ cliPc.at = "canonicalize"
    /\ IF cliIn.resolves
       THEN cliPc' = [cliPc EXCEPT !.at = "branch"] /\ cliRet' = cliRet
       ELSE Abort
    /\ UNCHANGED <<cliIn, cliLog>>
    /\ UNCHANGED notCli

\* Faulty variant: the default branch is detected although --branch is given.
UseOverride_Detects ==
    /\ cliPc.at = "branch"
    /\ cliIn.branch # <<>>
    /\ cliPc' = [cliPc EXCEPT !.at = "detect", !.k = 1]
    /\ UNCHANGED <<cliIn, cliLog, cliRet>>
    /\ UNCHANGED notCli

\* match &args.branch { Some(b) => b.clone(), .. }
UseOverride ==
    /\ cliPc.at = "branch"
    /\ cliIn.branch # <<>>
    /\ cliPc' = [cliPc EXCEPT !.at = "analyze", !.default_branch = cliIn.branch[1]]
    /\ UNCHANGED <<cliIn, cliLog, cliRet>>
    /\ UNCHANGED notCli

\* match &args.branch { None => git.detect_default_branch(&repo_path)?, .. }
CallDetect ==
    /\ cliPc.at = "branch"
    /\ cliIn.branch = <<>>
    /\ cliPc' = [cliPc EXCEPT !.at = "detect", !.k = 1]
    /\ UNCHANGED <<cliIn, cliLog, cliRet>>
    /\ UNCHANGED notCli

\* detect_default_branch, one iteration: git rev-parse --verify name; an error
\* of output() is returned, a successful exit returns the name, otherwise the
\* next name is tried.
RevParse ==
    /\ cliPc.at = "detect"
    /\ cliPc.k <= Len(Candidates)
    /\ cliLog' = Append(cliLog, <<"rev-parse", Candidates[cliPc.k]>>)
    /\ CASE cliIn.revParse[cliPc.k] = "error" -> Abort
         [] cliIn.revParse[cliPc.k] = "ok" ->
                /\ cliPc' = [cliPc EXCEPT !.at = "analyze",
                                          !.default_branch = Candidates[cliPc.k]]
                /\ cliRet' = cliRet
         [] OTHER ->
                /\ cliPc' = [cliPc EXCEPT !.k = cliPc.k + 1]
                /\ cliRet' = cliRet
    /\ UNCHANGED cliIn
    /\ UNCHANGED notCli

\* anyhow::bail!("Could not detect default branch ..."), passed on by main.
DetectBail ==
    /\ cliPc.at = "detect"
    /\ cliPc.k > Len(Candidates)
    /\ Abort
    /\ UNCHANGED <<cliIn, cliLog>>
    /\ UNCHANGED notCli

\* let branch_weights = objects::analyze_branches(&git, &repo_path, &default_branch)?;
Analyze ==
    /\ cliPc.at = "analyze"
    /\ cliLog' = Append(cliLog, <<"analyze_branches", cliPc.default_branch>>)
    /\ IF cliIn.analyze = "Ok"
       THEN cliPc' = [cliPc EXCEPT !.at = "mkdir"] /\ cliRet' = cliRet
       ELSE Abort
    /\ UNCHANGED cliIn
    /\ UNCHANGED notCli

\* std::fs::create_dir_all(&out_dir)?;
CreateDirAll ==
    /\ cliPc.at = "mkdir"
    /\ IF cliIn.mkdir
       THEN /\ cliPc' = [cliPc EXCEPT !.at = "write", !.k = 1]
            /\ cliLog' = Append(cliLog, <<"create_dir_all", "out_dir">>)
            /\ cliRet' = cliRet
       ELSE Abort /\ cliLog' = cliLog
    /\ UNCHANGED cliIn
    /\ UNCHANGED notCli

\* write_reports: fs::write(&path, ..)? for the next of the three files.
WriteFile ==
    /\ cliPc.at = "write"
    /\ cliPc.k <= Len(ReportFiles)
    /\ IF cliPc.k <= cliIn.writable
       THEN /\ cliLog' = Append(cliLog, <<"write", ReportFiles[cliPc.k]>>)
            /\ cliPc' = [cliPc EXCEPT !.k = cliPc.k + 1]
            /\ cliRet' = cliRet
       ELSE Abort /\ cliLog' = cliLog
    /\ UNCHANGED cliIn
    /\ UNCHANGED notCli

\* write_reports returns Ok(()), and so does main.
MainOk ==
    /\ cliPc.at = "write"
    /\ cliPc.k > Len(ReportFiles)
    /\ cliPc' = [cliPc EXCEPT !.at = "returned"]
    /\ cliRet' = "Ok"
    /\ UNCHANGED <<cliIn, cliLog>>
    /\ UNCHANGED notCli

CliNext ==
    \/ Canonicalize
    \/ UseOverride
    \/ CallDetect
    \/ RevParse
    \/ DetectBail
    \/ Analyze
    \/ CreateDirAll
    \/ WriteFile
    \/ MainOk

CliSpec == CliInit /\ [][CliNext]_vars

\* --------------------------------------------------------- format_size_mb

MaxKiB == 1024

MiB == 1024 * 1024

\* The sizes formatted: around every multiple of 1024 up to MaxKiB KiB (this
\* reaches both thresholds and the values next to them, 10485, 10486, 104857
\* and 104858), and 100 MiB.
FmtSizes ==
    {k * 1024 + d : k \in 0 .. MaxKiB, d \in {0, 100, 245, 246, 409, 410}}
        \cup {MiB * 100}

\* size as f64 / (1024.0 * 1024.0) printed with {:.prec$}: the decimal number
\* with prec fraction digits nearest to size / 2^20, the even one of two
\* equally near; scale is 10^prec, and the result is that number times scale.
\* (The quotient is exact in f64 for every size below 2^53.)
RoundScaled(size, scale) ==
    LET whole == size \div MiB
        num   == (size % MiB) * scale
        q     == num \div MiB
        r     == num % MiB
        up    == r * 2 > MiB \/ (r * 2 = MiB /\ q % 2 = 1)
    IN  whole * scale + q + (IF up THEN 1 ELSE 0)

\* The string "<whole>.<frac> MB", or "<whole> MB" when frac is empty.
MBString(whole, frac) == [whole |-> whole, frac |-> frac, unit |-> "MB"]

\* Faulty variant: the fraction digits are cut off, not rounded.
format_size_mb_Truncates(size) ==
    IF size * 10 >= MiB
    THEN MBString(size \div MiB, <<((size % MiB) * 10) \div MiB>>)
    ELSE IF size * 100 >= MiB
    THEN MBString(0, <<((size * 100) \div MiB) \div 10, ((size * 100) \div MiB) % 10>>)
    ELSE MBString(0, <<>>)

\* mb >= 0.1 holds iff size >= 0.1 * 2^20, and mb >= 0.01 iff
\* size >= 0.01 * 2^20: the f64 constants 0.1 and 0.01 exceed one tenth and
\* one hundredth by less than 1e-17, and no multiple of 2^-20 lies in between.
format_size_mb(size) ==
    IF size * 10 >= MiB
    THEN MBString(RoundScaled(size, 10) \div 10, <<RoundScaled(size, 10) % 10>>)
    ELSE IF size * 100 >= MiB
    THEN MBString(RoundScaled(size, 100) \div 100,
                  <<(RoundScaled(size, 100) \div 10) % 10, RoundScaled(size, 100) % 10>>)
    ELSE MBString(0, <<>>)

FmtInit ==
    /\ RunIdle
    /\ PipeIdle
    /\ CliIdle /\ DetIdle /\ CmIdle /\ RefIdle
    /\ fmtSize \in FmtSizes
    /\ fmtOut = None

\* format_size_mb(size) is called and returns.
FormatSizeMb ==
    /\ ~fmtOut.some
    /\ fmtOut' = Some(format_size_mb(fmtSize))
    /\ UNCHANGED fmtSize
    /\ UNCHANGED <<runVars, pipeVars, cliVars, detVars, cmVars, refVars>>

FmtNext == FormatSizeMb

FmtSpec == FmtInit /\ [][FmtNext]_vars

\* -------------------------------------------------- analyze_branch_details

MaxCommits == 2

\* The blobs of a commit as get_unmerged_commits reports them: one blob of
\* size 0, one blob of size 1, two blobs of size 1.
CommitMaps ==
    {[o \in {"x"} |-> 0], [o \in {"x"} |-> 1], [o \in {"x", "y"} |-> 1]}

CommitIds == <<"k1", "k2", "k3", "k4">>

\* What get_unmerged_commits returns for a branch: an error, or the
\* CommitBlobs of up to MaxCommits commits.
CommitsOutcomes ==
    {[ok |-> FALSE, val |-> <<>>]} \cup
    UNION {{[ok |-> TRUE,
             val |-> [k \in 1 .. n |-> [commit |-> CommitIds[k], blobs |-> m[k]]]] :
               m \in [1 .. n -> CommitMaps]} : n \in 0 .. MaxCommits}

\* A weight list as calculate_weights returns it, by descending total_size.
WeightList(n) == [i \in 1 .. n |-> [branch |-> AllNames[i], total_size |-> n - i]]

DetailInputs ==
    UNION {[branches : {WeightList(n)},
            top_n : 0 .. MaxBranches + 1,
            commits : [1 .. n -> CommitsOutcomes]] : n \in 0 .. MaxBranches}

\* cb.blobs.values().sum()
RECURSIVE SumValues(_)
SumValues(m) ==
    IF DOMAIN m = {} THEN 0
    ELSE LET o == CHOOSE p \in DOMAIN m : TRUE
         IN  m[o] + SumValues([p \in DOMAIN m \ {o} |-> m[p]])

\* .map(|cb| CommitWeight { commit: cb.commit, size: cb.blobs.values().sum() })
CommitWeightOf(cb) == [commit |-> cb.commit, size |-> SumValues(cb.blobs)]

\* Faulty variant: every commit is kept.
KeepCommit_All(cw) == TRUE

\* .filter(|cw| cw.size > 0)
KeepCommit(cw) == cw.size > 0

RECURSIVE CommitWeights(_)
CommitWeights(commits) ==
    IF commits = <<>> THEN <<>>
    ELSE (IF KeepCommit(CommitWeightOf(Head(commits)))
          THEN <<CommitWeightOf(Head(commits))>> ELSE <<>>)
         \o CommitWeights(Tail(commits))

\* commit_weights.iter().map(|c| c.size).sum()
RECURSIVE SumCommitSizes(_)
SumCommitSizes(cws) ==
    IF cws = <<>> THEN 0 ELSE Head(cws).size + SumCommitSizes(Tail(cws))

\* The filter_map closure: None when get_unmerged_commits fails (.ok()?),
\* otherwise the BranchDetail of the branch.
DetailClosure(bw, outcome) ==
    IF ~outcome.ok THEN None
    ELSE Some([branch |-> bw.branch,
               total_size |-> SumCommitSizes(CommitWeights(outcome.val)),
               commits |-> CommitWeights(outcome.val)])

\* branches.iter().take(top_n) ... par_iter().filter_map(..).collect(): the
\* details of entries i+1 .. n in the order of the list.
RECURSIVE DetailsFrom(_, _, _, _)
DetailsFrom(branches, commits, i, n) ==
    IF i >= n THEN <<>>
    ELSE (IF DetailClosure(branches[i + 1], commits[i + 1]).some
          THEN <<DetailClosure(branches[i + 1], commits[i + 1]).val>>
          ELSE <<>>) \o DetailsFrom(branches, commits, i + 1, n)

analyze_branch_details(branches, commits, top_n) ==
    DetailsFrom(branches, commits, 0,
                IF top_n < Len(branches) THEN top_n ELSE Len(branches))

DetInit ==
    /\ RunIdle
    /\ PipeIdle
    /\ CliIdle /\ FmtIdle /\ CmIdle /\ RefIdle
    /\ detIn \in DetailInputs
    /\ detOut = None

\* analyze_branch_details is called and returns Ok(details).
AnalyzeBranchDetails ==
    /\ ~detOut.some
    /\ detOut' = Some(analyze_branch_details(detIn.branches, detIn.commits, detIn.top_n))
    /\ UNCHANGED detIn
    /\ UNCHANGED <<runVars, pipeVars, cliVars, fmtVars, cmVars, refVars>>

DetNext == AnalyzeBranchDetails

DetSpec == DetInit /\ [][DetNext]_vars

\* ---------------------------------------------------- the weight of a commit

MaxPaths == 2

\* A path the commit changes against its parent: added, modified or deleted,
\* and the blob it has in the commit (for a deleted path, the null id).
TreeChanges ==
    [status : {"A", "M"}, blob : Oids] \cup [status : {"D"}, blob : {"null"}]

\* One commit: its changes in path order, the size cat-file reports for each
\* blob, and whether cat-file can be run.
CommitInputs ==
    UNION {[changes : [1 .. n -> TreeChanges],
            sizes : [Oids -> Sizes],
            catFile : {"ok", "error"}] : n \in 0 .. MaxPaths}

\* git diff-tree -r --diff-filter=AM --no-commit-id: one raw line per added or
\* modified path, ":<old mode> <new mode> <old id> <new id> <status> <path>";
\* parts[3] of each line of at least four tokens is pushed.
RECURSIVE DiffTreeBlobs(_)
DiffTreeBlobs(changes) ==
    IF changes = <<>> THEN <<>>
    ELSE (IF Head(changes).status \in {"A", "M"} THEN <<Head(changes).blob>> ELSE <<>>)
         \o DiffTreeBlobs(Tail(changes))

\* get_blob_sizes: every id is written to cat-file, and every answer is
\* inserted into a HashMap keyed by the id, so an id named twice has one entry.
get_blob_sizes(oids, sizes) ==
    [o \in {oids[k] : k \in DOMAIN oids} |-> sizes[o]]

CmInit ==
    /\ RunIdle
    /\ PipeIdle
    /\ CliIdle /\ FmtIdle /\ DetIdle /\ RefIdle
    /\ cmIn \in CommitInputs
    /\ cmOut = [at |-> "diff-tree", blobs |-> <<>>, sizes |-> EmptyMap, weight |-> 0]

notCm == <<runVars, pipeVars, cliVars, fmtVars, detVars, refVars>>

\* get_unmerged_commits runs diff-tree on the commit and collects the ids.
DiffTree ==
    /\ cmOut.at = "diff-tree"
    /\ cmOut' = [cmOut EXCEPT !.at = "sizes", !.blobs = DiffTreeBlobs(cmIn.changes)]
    /\ UNCHANGED cmIn
    /\ UNCHANGED notCm

\* if !blobs.is_empty() { let sizes = self.get_blob_sizes(repo, &blobs)?;
\* results.push(CommitBlobs { commit, blobs: sizes }); }
GetBlobSizes ==
    /\ cmOut.at = "sizes"
    /\ cmOut.blobs # <<>>
    /\ IF cmIn.catFile = "ok"
       THEN cmOut' = [cmOut EXCEPT !.at = "pushed",
                                   !.sizes = get_blob_sizes(cmOut.blobs, cmIn.sizes)]
       ELSE cmOut' = [cmOut EXCEPT !.at = "Err"]
    /\ UNCHANGED cmIn
    /\ UNCHANGED notCm

\* No line was printed: the commit is not among the results.
SkipCommit ==
    /\ cmOut.at = "sizes"
    /\ cmOut.blobs = <<>>
    /\ cmOut' = [cmOut EXCEPT !.at = "skipped"]
    /\ UNCHANGED cmIn
    /\ UNCHANGED notCm

\* analyze_branch_details: let size: u64 = cb.blobs.values().sum();
WeighCommit ==
    /\ cmOut.at = "pushed"
    /\ cmOut' = [cmOut EXCEPT !.at = "weighed", !.weight = SumValues(cmOut.sizes)]
    /\ UNCHANGED cmIn
    /\ UNCHANGED notCm

CmNext ==
    \/ DiffTree
    \/ GetBlobSizes
    \/ SkipCommit
    \/ WeighCommit

CmSpec == CmInit /\ [][CmNext]_vars

\* ------------------------------------- the revisions the analyses walk from

\* Reference names, as their components between slashes, in the order
\* for-each-ref prints them.
RefNames ==
    <<<<"refs", "heads", "foo">>,
      <<"refs", "heads", "origin", "foo">>,
      <<"refs", "remotes", "origin", "HEAD">>,
      <<"refs", "remotes", "origin", "foo">>>>

Tips == {"t1", "t2"}

\* The unmerged references of a repository and the commits they point at.
RefTables == UNION {[D -> Tips] : D \in SUBSET {RefNames[k] : k \in DOMAIN RefNames}}

\* refname.strip_prefix(prefix): the rest of the name when it starts with the
\* prefix, None otherwise.
StripPrefix(refname, prefix) ==
    IF Len(refname) >= Len(prefix) /\ SubSeq(refname, 1, Len(prefix)) = prefix
    THEN Some(SubSeq(refname, Len(prefix) + 1, Len(refname)))
    ELSE None

\* strip_prefix("refs/heads/").or_else(|| strip_prefix("refs/remotes/"))
\*     .unwrap_or(refname)
BranchName(refname) ==
    IF StripPrefix(refname, <<"refs", "heads">>).some
    THEN StripPrefix(refname, <<"refs", "heads">>).val
    ELSE IF StripPrefix(refname, <<"refs", "remotes">>).some
    THEN StripPrefix(refname, <<"refs", "remotes">>).val
    ELSE refname

\* get_branches: a (branch_name, oid) pair for every reference printed whose
\* name does not end with "/HEAD", from the k-th name on.
RECURSIVE BranchesFrom(_, _)
BranchesFrom(table, k) ==
    IF k > Len(RefNames) THEN <<>>
    ELSE (IF RefNames[k] \in DOMAIN table /\ RefNames[k][Len(RefNames[k])] # "HEAD"
          THEN <<<<BranchName(RefNames[k]), table[RefNames[k]]>>>>
          ELSE <<>>) \o BranchesFrom(table, k + 1)

get_branches(table) == BranchesFrom(table, 1)

\* let branch_ref = format!("refs/remotes/{}", bw.branch);
BranchRef(branch) == <<"refs", "remotes">> \o branch

\* What git makes of a full reference name given as a revision: the commit the
\* reference points at, or nothing (rev-list fails) when there is none.
Resolve(table, rev) == IF rev \in DOMAIN table THEN Some(table[rev]) ELSE None

RefInit ==
    /\ RunIdle
    /\ PipeIdle
    /\ CliIdle /\ FmtIdle /\ DetIdle /\ CmIdle
    /\ refsIn \in RefTables
    /\ refPc = [at |-> "list", i |-> 0]
    /\ refLog = [branches |-> <<>>, blobs |-> <<>>, commits |-> <<>>]

notRef == <<runVars, pipeVars, cliVars, fmtVars, detVars, cmVars>>

\* analyze_branches: let branches = git.get_branches(repo_path)?;
ListBranches ==
    /\ refPc.at = "list"
    /\ refLog' = [refLog EXCEPT !.branches = get_branches(refsIn)]
    /\ refPc' = [at |-> "blobs", i |-> 1]
    /\ UNCHANGED refsIn
    /\ UNCHANGED notRef

\* analyze_branches: git.get_unmerged_blobs(repo_path, tip, default_branch)
\* for the next branch of the list.
BlobsCall ==
    /\ refPc.at = "blobs"
    /\ refPc.i <= Len(refLog.branches)
    /\ refLog' = [refLog EXCEPT !.blobs =
                     Append(@, [include |-> refLog.branches[refPc.i][2],
                                exclude |-> "default_branch"])]
    /\ refPc' = [refPc EXCEPT !.i = @ + 1]
    /\ UNCHANGED refsIn
    /\ UNCHANGED notRef

\* analyze_branches has returned a weight for every branch, and
\* analyze_branch_details is called with all of them selected.
StartDetails ==
    /\ refPc.at = "blobs"
    /\ refPc.i > Len(refLog.branches)
    /\ refPc' = [at |-> "details", i |-> 1]
    /\ UNCHANGED <<refsIn, refLog>>
    /\ UNCHANGED notRef

\* analyze_branch_details: git.get_unmerged_commits(repo_path, &branch_ref,
\* default_branch) for the next selected branch.
CommitsCall ==
    /\ refPc.at = "details"
    /\ refPc.i <= Len(refLog.branches)
    /\ refLog' = [refLog EXCEPT !.commits =
                     Append(@, [include |-> BranchRef(refLog.branches[refPc.i][1]),
                                exclude |-> "default_branch"])]
    /\ refPc' = [refPc EXCEPT !.i = @ + 1]
    /\ UNCHANGED refsIn
    /\ UNCHANGED notRef

DetailsDone ==
    /\ refPc.at = "details"
    /\ refPc.i > Len(refLog.branches)
    /\ refPc' = [at |-> "done", i |-> 0]
    /\ UNCHANGED <<refsIn, refLog>>
    /\ UNCHANGED notRef

RefNext ==
    \/ ListBranches
    \/ BlobsCall
    \/ StartDetails
    \/ CommitsCall
    \/ DetailsDone

RefSpec == RefInit /\ [][RefNext]_vars

\* ------------------------------------------------- what the inputs determine

\* The object map branch i hands to the run: what get_unmerged_blobs returned,
\* an error counting as no objects.
GivenMap(i) == IF gitRuns[i].spawned THEN gitRuns[i].blobs ELSE EmptyMap

\* The branches whose map holds object o.
Holders(o) == {i \in DOMAIN gitRuns : o \in DOMAIN GivenMap(i)}

Lowest(S) == CHOOSE i \in S : \A j \in S : i <= j

\* The size of o; should two branches report different sizes for one id, the
\* one reported by the lowest-indexed holder.
GivenSize(o) == GivenMap(Lowest(Holders(o)))[o]

RECURSIVE SumGiven(_)
SumGiven(S) ==
    IF S = {} THEN 0
    ELSE LET o == CHOOSE o \in S : TRUE IN GivenSize(o) + SumGiven(S \ {o})

UniqueOf(i) == {o \in DOMAIN GivenMap(i) : Holders(o) = {i}}
SharedOf(i) == {o \in DOMAIN GivenMap(i) : Holders(o) # {i}}

EntriesOf(i) == {k \in DOMAIN results : results[k].branch = branch_names[i + 1]}

Returned == pc = "done" /\ ret = "Ok"

\* The branch indices of S in increasing order.
RECURSIVE Ascending(_)
Ascending(S) ==
    IF S = {} THEN <<>> ELSE <<Lowest(S)>> \o Ascending(S \ {Lowest(S)})

\* The list analyze_branches computes for the branches of S alone, in their
\* original relative order: the run as it would be with the others absent.
RunWithOnly(S) ==
    LET idx == Ascending(S)
        names == [k \in DOMAIN idx |-> branch_names[idx[k] + 1]]
        out == [j \in Indices(Len(idx)) |->
                   IF DOMAIN GivenMap(idx[j + 1]) # {}
                   THEN Some(<<j, GivenMap(idx[j + 1])>>) ELSE None]
    IN  calculate_weights(names, merge_branch_objects(CollectFrom(out, 0, Len(idx))))

\* ------------------------------------------------------------------ claims

\* C1: an object held by exactly one branch adds its full size to that
\* branch's unique_size and 1 to its unique_count, and to no other branch; an
\* object held by k > 1 branches adds its full, undivided size to shared_size
\* and 1 to shared_count of each of the k branches and nothing to any
\* unique_size.  A branch without an entry has nothing to be attributed.
C1_UniqueSharedAttribution ==
    Returned =>
        \A i \in DOMAIN gitRuns :
            IF EntriesOf(i) = {}
            THEN SumGiven(UniqueOf(i)) = 0 /\ SumGiven(SharedOf(i)) = 0
            ELSE \A k \in EntriesOf(i) :
                    /\ results[k].unique_size = SumGiven(UniqueOf(i))
                    /\ results[k].unique_count = Cardinality(UniqueOf(i))
                    /\ results[k].shared_size = SumGiven(SharedOf(i))
                    /\ results[k].shared_count = Cardinality(SharedOf(i))

C1_Witness ==
    /\ Returned
    /\ Len(results) = 2
    /\ \E k \in DOMAIN results :
           results[k].unique_size > 0 /\ results[k].shared_size > 0

\* C2: every BranchWeight returned satisfies total_size = unique_size +
\* shared_size and object_count = unique_count + shared_count.
C2_TotalsAreSums ==
    \A k \in DOMAIN results :
        /\ results[k].total_size = results[k].unique_size + results[k].shared_size
        /\ results[k].object_count
               = results[k].unique_count + results[k].shared_count

C2_Witness ==
    /\ Returned
    /\ \E k \in DOMAIN results :
           /\ results[k].unique_count > 0
           /\ results[k].shared_count > 0
           /\ results[k].total_size > results[k].unique_size
           /\ results[k].unique_size > 0

IndexOfName(n) == CHOOSE i \in Indices(Len(branch_names)) : branch_names[i + 1] = n

\* C3: the returned list is in non-increasing order of total_size, and two
\* branches of equal total_size keep the relative order they have in the
\* branch list, whatever order the branch tasks completed in.
C3_SortedStable ==
    Returned =>
        \A p, q \in DOMAIN results :
            p < q =>
                /\ results[p].total_size >= results[q].total_size
                /\ results[p].total_size = results[q].total_size
                       => IndexOfName(results[p].branch)
                              < IndexOfName(results[q].branch)

C3_Witness ==
    /\ Returned
    /\ Len(results) >= 2
    /\ results[1].total_size = results[2].total_size
    /\ completion[1] > completion[2]

\* C4: a branch whose collected object map is empty never has an entry in the
\* returned list, while the other branches are reported as they would be
\* without it.
EmptyBranches == {i \in DOMAIN gitRuns : gitRuns[i].spawned /\ gitRuns[i].blobs = EmptyMap}

C4_EmptyBranchExcluded ==
    Returned =>
        /\ \A i \in EmptyBranches : EntriesOf(i) = {}
        /\ results = RunWithOnly(DOMAIN gitRuns \ EmptyBranches)

C4_Witness ==
    /\ Returned
    /\ EmptyBranches # {}
    /\ results # <<>>

\* C5: a branch is omitted from the output only when its object_count is 0:
\* every branch for which at least one blob was collected has an entry, also
\* when every one of its blobs has size 0.
C5_OmittedOnlyWhenNoObjects ==
    Returned =>
        \A i \in DOMAIN gitRuns : DOMAIN GivenMap(i) # {} => EntriesOf(i) # {}

\* C6: for a fixed branch list and fixed per-branch query results the returned
\* list is the same in every run: it is the list the inputs alone determine,
\* entry by entry and in order, for every completion order of the tasks.
GivenStats(i) ==
    <<SumGiven(UniqueOf(i)), SumGiven(SharedOf(i)),
      Cardinality(UniqueOf(i)), Cardinality(SharedOf(i))>>

\* The list a table of per-branch statistics determines: the branches of
\* non-zero total, by decreasing total and then by index.
ListOf(stats) ==
    LET Total(i) == stats[i][1] + stats[i][2]
        reported == {i \in DOMAIN stats : Total(i) > 0}
        Rank(i) == 1 + Cardinality({j \in reported :
                                       \/ Total(j) > Total(i)
                                       \/ Total(j) = Total(i) /\ j < i})
    IN  [k \in 1 .. Cardinality(reported) |->
            LET i == CHOOSE i \in reported : Rank(i) = k
            IN  [branch |-> gitBranches.val[i + 1],
                 unique_size |-> stats[i][1],
                 shared_size |-> stats[i][2],
                 total_size |-> Total(i),
                 object_count |-> stats[i][3] + stats[i][4],
                 unique_count |-> stats[i][3],
                 shared_count |-> stats[i][4]]]

C6_ScheduleIndependent ==
    /\ pc = "done" => ret = IF gitBranches.ok THEN "Ok" ELSE "Err"
    /\ Returned =>
           \A stats \in {[i \in DOMAIN gitRuns |-> GivenStats(i)]} :
               results = ListOf(stats)

\* The tasks completed against the index order, and two branches report one
\* object with different sizes.
C6_Witness ==
    /\ Returned
    /\ Len(completion) >= 2
    /\ completion[1] > completion[2]
    /\ \E o \in Oids : \E i, j \in Holders(o) : GivenMap(i)[o] # GivenMap(j)[o]

\* C7: when get_branches returns an empty list, analyze_branches returns Ok
\* with an empty list at once: no branch task, no merge, no error.
C7_EmptyBranchList ==
    (gitBranches.ok /\ gitBranches.val = <<>> /\ pc # "start") =>
        /\ pc = "done"
        /\ ret = "Ok"
        /\ results = <<>>
        /\ completion = <<>>

C7_Witness ==
    /\ pc = "done"
    /\ gitBranches.ok
    /\ gitBranches.val = <<>>
    /\ ret = "Ok"

\* C8: if get_unmerged_blobs returns an error for some branch, analyze_branches
\* still returns Ok; the failed branch has no entry and is in no object's
\* contributor set, and the list is the one of the run without that branch.
FailedBranches == {i \in DOMAIN gitRuns : ~get_unmerged_blobs(gitRuns[i]).ok}

C8_FailedBranchIsAbsent ==
    (pc = "done" /\ gitBranches.ok) =>
        /\ ret = "Ok"
        /\ \A i \in FailedBranches :
               /\ EntriesOf(i) = {}
               /\ \A o \in DOMAIN object_map : i \notin object_map[o].branches
        /\ FailedBranches # {}
               => results = RunWithOnly(DOMAIN gitRuns \ FailedBranches)

C8_Witness ==
    /\ Returned
    /\ FailedBranches # {}
    /\ \E i \in FailedBranches : i < Len(branch_names) - 1
    /\ results # <<>>

\* C9: a branch whose pipeline exits abnormally (non-zero exit status, possibly
\* after valid blob lines) contributes zero weight: its objects count towards
\* no branch's totals, and the run continues.
AbnormalBranches == {i \in DOMAIN gitRuns : gitRuns[i].spawned /\ gitRuns[i].exit # 0}

C9_AbnormalExitContributesNothing ==
    (pc = "done" /\ gitBranches.ok) =>
        /\ ret = "Ok"
        /\ \A i \in AbnormalBranches :
               /\ EntriesOf(i) = {}
               /\ \A o \in DOMAIN object_map : i \notin object_map[o].branches

\* C10: the pipeline of one branch never deadlocks: once both processes are
\* started, whatever the capacity of the pipes and the number of ids, the
\* writer thread reaches end of the rev-list stream and closes cat-file's
\* input, the consumer reaches end of cat-file's output, and
\* get_unmerged_blobs returns; also when cat-file exits early.
C10_PipelineReturns ==
    (mainPc = "read") ~>
        (/\ mainPc = "returned"
         /\ pipeRet = "Ok"
         /\ writer = "done"
         /\ ~stdinOpen
         /\ rev_stdout = <<>>
         /\ cat_stdout = <<>>)

\* More ids than the pipes hold went through, cat-file exited early, and the
\* call has returned.
C10_Witness ==
    /\ mainPc = "returned"
    /\ pipeRet = "Ok"
    /\ exitStatus.cat = 1
    /\ exitStatus.rev = 0
    /\ Len(revInput) = MaxLines
    /\ \A k \in DOMAIN revInput : revInput[k] # <<>>
    /\ blobs # EmptyMap

\* ------------------------------------------------------------------ C11

\* The ids of the lines of the probe output that have at least three tokens,
\* "blob" as the second and an unsigned decimal number as the third.
BlobLineIds(out) ==
    {out[k][1] : k \in {j \in DOMAIN out : /\ Len(out[j]) >= 3
                                           /\ out[j][2] = "blob"
                                           /\ out[j][3] \in {"0", "1", "2"}}}

\* C11: when get_unmerged_blobs has returned after running both processes, it
\* has returned Ok, and the returned map holds an id exactly when the probe
\* printed at least one line of three or more tokens with that id first,
\* "blob" second and a number third; every other line (fewer tokens, a tree,
\* commit or tag, an unparsable size) is dropped without failing the call
\* or touching other ids, and a map left empty is still returned as Ok.
C11_BlobLinesOnly ==
    /\ (mainPc = "returned" /\ cat_file # "none") =>
           /\ pipeRet = "Ok"
           /\ DOMAIN blobs = BlobLineIds(probeOut)
    /\ (mainPc \in {"read", "join", "wait_rev", "wait_cat"}) =>
           DOMAIN blobs \subseteq BlobLineIds(probeOut)

\* A call that returned a blob although the probe also printed a line that was
\* dropped: one id is a blob with a size, the other one is not.
C11_Witness ==
    /\ mainPc = "returned"
    /\ pipeRet = "Ok"
    /\ Len(probeOut) = 2
    /\ Cardinality(DOMAIN blobs) = 1
    /\ \E k \in DOMAIN probeOut : probeOut[k][2] # "blob" \/ probeOut[k][3] = "x"

\* ------------------------------------------------------------------ C12

\* What main has done of one kind.
Done(kind) == {k \in DOMAIN cliLog : cliLog[k][1] = kind}

\* Baseline detection fails: no candidate verifies before git fails to run or
\* the candidates are used up.
DetectionFails ==
    ~ \E k \in DOMAIN cliIn.revParse :
          /\ cliIn.revParse[k] = "ok"
          /\ \A j \in 1 .. k - 1 : cliIn.revParse[j] = "fail"

\* C12: when the repository path does not resolve, or no --branch is given
\* and detection of the baseline fails, the run returns an error without
\* having started the analysis or written a report file; when --branch is
\* given, detect_default_branch does not run at all.
C12_FatalBeforeAnalysis ==
    /\ (~cliIn.resolves \/ (cliIn.branch = <<>> /\ DetectionFails)) =>
           /\ Done("analyze_branches") = {}
           /\ Done("write") = {}
           /\ cliPc.at = "returned" => cliRet = "Err"
    /\ cliIn.branch # <<>> => Done("rev-parse") = {}
    /\ ~cliIn.resolves => Done("rev-parse") = {}

\* A run without --branch in which both master and main were tried and
\* neither verified, so that main returned the error.
C12_Witness ==
    /\ cliPc.at = "returned"
    /\ cliRet = "Err"
    /\ cliIn.resolves
    /\ cliIn.branch = <<>>
    /\ Cardinality(Done("rev-parse")) = Len(Candidates)

\* ------------------------------------------------------------------ C13

Abs(n) == IF n < 0 THEN 0 - n ELSE n

\* The number a string with n fraction digits denotes, times 10^n.
Scaled(str) ==
    IF Len(str.frac) = 0 THEN str.whole
    ELSE IF Len(str.frac) = 1 THEN str.whole * 10 + str.frac[1]
    ELSE str.whole * 100 + str.frac[1] * 10 + str.frac[2]

\* str has n fraction digits and is a decimal number of n fraction digits
\* nearest to size / 2^20; scale is 10^n.
NearestWith(str, n, scale, size) ==
    /\ Len(str.frac) = n
    /\ \A k \in 1 .. n : str.frac[k] \in 0 .. 9
    /\ Abs((Scaled(str) - (size \div MiB) * scale) * MiB - (size % MiB) * scale) * 2 <= MiB

\* C13: format_size_mb(size), with mb = size / 2^20, gives mb with exactly one
\* decimal place when mb >= 0.1, with exactly two when 0.01 <= mb < 0.1, and
\* "0 MB" when mb < 0.01; 10 KiB gives "0 MB", 15 KiB "0.01 MB", 100 KiB
\* "0.10 MB", 512 KiB "0.5 MB", 1 MiB "1.0 MB" and 0 gives "0 MB".
C13_FormatSizeMb ==
    fmtOut.some =>
        /\ fmtOut.val.unit = "MB"
        /\ fmtSize * 10 >= MiB => NearestWith(fmtOut.val, 1, 10, fmtSize)
        /\ (fmtSize * 10 < MiB /\ fmtSize * 100 >= MiB) =>
               NearestWith(fmtOut.val, 2, 100, fmtSize)
        /\ (fmtSize * 10 < MiB /\ fmtSize * 100 < MiB) =>
               fmtOut.val = MBString(0, <<>>)
        /\ fmtSize = 1024 * 10 => fmtOut.val = MBString(0, <<>>)
        /\ fmtSize = 1024 * 15 => fmtOut.val = MBString(0, <<0, 1>>)
        /\ fmtSize = 1024 * 100 => fmtOut.val = MBString(0, <<1, 0>>)
        /\ fmtSize = 1024 * 512 => fmtOut.val = MBString(0, <<5>>)
        /\ fmtSize = MiB => fmtOut.val = MBString(1, <<0>>)
        /\ fmtSize = 0 => fmtOut.val = MBString(0, <<>>)

\* 100 KiB, just below 0.1 MB, has been formatted with two decimals as "0.10 MB".
C13_Witness ==
    /\ fmtSize = 1024 * 100
    /\ fmtOut.some
    /\ fmtOut.val = MBString(0, <<1, 0>>)

\* ------------------------------------------------------------------ C14

\* The sum of the sizes of the blobs the commit with this id was given: the
\* sizes in CommitMaps are 0 and 1, so the sum is the number of blobs of size 1.
GivenCommitSum(commits, id) ==
    LET k == CHOOSE j \in DOMAIN commits : commits[j].commit = id
        S == {o \in DOMAIN commits[k].blobs : commits[k].blobs[o] = 1}
    IN  Cardinality(S)

\* The position of a branch name in the weight list.
PositionOf(name) ==
    CHOOSE i \in DOMAIN detIn.branches : detIn.branches[i].branch = name

\* commits[from ..] add up to sum.
RECURSIVE AddUpTo(_, _, _)
AddUpTo(cws, from, sum) ==
    IF from > Len(cws) THEN sum = 0
    ELSE AddUpTo(cws, from + 1, sum - cws[from].size)

\* C14: analyze_branch_details returns at most N details, each for a branch
\* among the first N entries of the weight list and no two for the same
\* branch; in each, the retained commits are the branch's commits whose sum
\* is not zero, each has size > 0, and total_size is the sum of their sizes.
C14_DetailsOfTopN ==
    detOut.some =>
        LET details == detOut.val
        IN  /\ Len(details) <= detIn.top_n
            /\ \A k \in DOMAIN details :
                  /\ \E i \in DOMAIN detIn.branches :
                        i <= detIn.top_n /\ detIn.branches[i].branch = details[k].branch
                  /\ \A j \in DOMAIN details : details[j].branch = details[k].branch => j = k
                  /\ \A c \in DOMAIN details[k].commits : details[k].commits[c].size > 0
                  /\ LET given == detIn.commits[PositionOf(details[k].branch)].val
                     IN  /\ {details[k].commits[c].commit : c \in DOMAIN details[k].commits}
                            = {given[g].commit : g \in {h \in DOMAIN given :
                                   GivenCommitSum(given, given[h].commit) > 0}}
                         /\ \A c \in DOMAIN details[k].commits :
                               details[k].commits[c].size
                                   = GivenCommitSum(given, details[k].commits[c].commit)
                  /\ AddUpTo(details[k].commits, 1, details[k].total_size)

\* Details were returned for the first entry of a longer list, of whose two
\* commits one was dropped and one retained.
C14_Witness ==
    /\ detOut.some
    /\ detIn.top_n = 1
    /\ Len(detIn.branches) = 2
    /\ Len(detOut.val) = 1
    /\ Len(detIn.commits[1].val) = 2
    /\ Len(detOut.val[1].commits) = 1
    /\ detOut.val[1].total_size = 2

\* ------------------------------------------------------------------ C15

\* The sum, over the added or modified paths from position from on, of the
\* size of the path's new blob.
RECURSIVE SumOverPaths(_, _)
SumOverPaths(changes, from) ==
    IF from > Len(changes) THEN 0
    ELSE (IF changes[from].status \in {"A", "M"}
          THEN cmIn.sizes[changes[from].blob] ELSE 0)
         + SumOverPaths(changes, from + 1)

\* C15: the weight of a commit is the sum of the blob sizes over its added or
\* modified paths, each path contributing the size of its new blob, two paths
\* with the same blob id each contributing it, deleted paths nothing; a
\* commit that is not among the results weighs nothing.
C15_WeightSumsPaths ==
    /\ cmOut.at = "weighed" => cmOut.weight = SumOverPaths(cmIn.changes, 1)
    /\ cmOut.at = "skipped" => SumOverPaths(cmIn.changes, 1) = 0

\* ------------------------------------------------------------------ C16

\* C16: for every branch selected for detail expansion, local or remote, the
\* include revision passed to get_unmerged_commits denotes the tip that was
\* passed to get_unmerged_blobs for that branch, and the exclude revision is
\* the same baseline.
C16_DetailWalkFromTip ==
    \A i \in DOMAIN refLog.commits :
        /\ Resolve(refsIn, refLog.commits[i].include) = Some(refLog.blobs[i].include)
        /\ refLog.commits[i].exclude = refLog.blobs[i].exclude

\* ------------------------------------------------------------------ C17

\* C17: in every step, each record of the object map stays in the map with
\* its size unchanged and with no contributor lost; a step that changes the
\* map is an iteration of the merge for one branch, which adds at most that
\* branch's index to the contributors of existing records and creates the
\* records of ids seen for the first time with that branch's size and that
\* branch as the only contributor.
C17_RecordsOnlyGainContributors ==
    [][/\ \A o \in DOMAIN object_map :
              /\ o \in DOMAIN object_map'
              /\ object_map'[o].size = object_map[o].size
              /\ object_map[o].branches \subseteq object_map'[o].branches
       /\ object_map' # object_map =>
              /\ pc = "merge"
              /\ partial_maps # <<>>
              /\ \A o \in DOMAIN object_map :
                    object_map'[o].branches =
                        IF o \in DOMAIN Head(partial_maps)[2]
                        THEN object_map[o].branches \cup {Head(partial_maps)[1]}
                        ELSE object_map[o].branches
              /\ DOMAIN object_map' = DOMAIN object_map \cup DOMAIN Head(partial_maps)[2]
              /\ \A o \in DOMAIN object_map' \ DOMAIN object_map :
                    object_map'[o] = [size |-> Head(partial_maps)[2][o],
                                      branches |-> {Head(partial_maps)[1]}]
      ]_vars

\* The merge is over and a record has two contributors that reported
\* different sizes: the record has the size of the first sighting.
C17_Witness ==
    /\ pc = "weights"
    /\ \E o \in DOMAIN object_map :
          /\ object_map[o].branches = {0, 1}
          /\ GivenMap(0)[o] # GivenMap(1)[o]
          /\ object_map[o].size = GivenMap(0)[o]

\* ------------------------------------------------------------------ C18

\* One (branch-index, object-map) pair for each branch of S, by index.
PairsOf(S) == [k \in DOMAIN Ascending(S) |-> <<Ascending(S)[k], GivenMap(Ascending(S)[k])>>]

\* C18: when the tasks are over, the merge is handed exactly one pair
\* (index, map) for each branch whose pipeline succeeded with a non-empty
\* map, the index being the branch's position in the branch list; and once
\* the merge is over, the contributors of every object id are exactly the
\* indices of the branches whose map holds the id, whatever the order in
\* which the tasks completed.
C18_AttributedToBranchIndex ==
    /\ [][(pc = "collect" /\ pc' = "merge") =>
              partial_maps' = PairsOf({i \in DOMAIN gitRuns : DOMAIN GivenMap(i) # {}})]_vars
    /\ [](pc = "weights" =>
              /\ DOMAIN object_map = {o \in Oids : Holders(o) # {}}
              /\ \A o \in DOMAIN object_map : object_map[o].branches = Holders(o))

\* The merge is over after the second branch's task completed before the
\* first one's, the first branch handed nothing, and an object is attributed
\* to index 1.
C18_Witness ==
    /\ pc = "weights"
    /\ Len(completion) = 2
    /\ completion[1] = 1
    /\ DOMAIN GivenMap(0) = {}
    /\ \E o \in DOMAIN object_map : object_map[o].branches = {1}

\* ------------------------------------------------------------------ C19

\* C19: a step that writes the global object map is taken while no branch
\* task is running or still to run, after collect() has returned, by the
\* merge alone; the result vector is handed over only when every task has
\* finished; and a step of a task writes only that task's own result.
C19_MergeAfterBarrier ==
    [][/\ object_map' # object_map =>
              /\ \A i \in DOMAIN task : task[i] = "done"
              /\ pc = "merge"
       /\ partial_maps' # partial_maps =>
              \A i \in DOMAIN task : task[i] = "done"
       /\ (\E i \in DOMAIN task : task[i] # "done") =>
              object_map' = object_map /\ object_map = EmptyMap
       /\ taskOut' # taskOut /\ pc = "collect" =>
              \E i \in DOMAIN task :
                  /\ task[i] = "running"
                  /\ task'[i] = "done"
                  /\ \A j \in DOMAIN task \ {i} : taskOut'[j] = taskOut[j] /\ task'[j] = task[j]
      ]_vars

\* The second branch's task finished before the first one's, all tasks have
\* finished, and the merge has written the global map and is not over.
C19_Witness ==
    /\ pc = "merge"
    /\ object_map # EmptyMap
    /\ partial_maps # <<>>
    /\ completion = <<1, 0>>
    /\ \A i \in DOMAIN task : task[i] = "done"

\* ------------------------------------------------------------------ C20

\* The first tokens of the non-blank lines, in the order of the lines.
RECURSIVE FirstTokens(_)
FirstTokens(lines) ==
    IF lines = <<>> THEN <<>>
    ELSE (IF Len(Head(lines)) > 0 THEN <<Head(lines)[1]>> ELSE <<>>)
         \o FirstTokens(Tail(lines))

IsPrefix(s, t) == Len(s) <= Len(t) /\ s = SubSeq(t, 1, Len(s))

\* C20: the forwarder reads the lines of the reachability stream in the order
\* they were emitted; the ids it has written to the probe are first tokens of
\* the non-blank lines read, in that order; and as long as the probe runs,
\* the ids written are all of them but at most the one of the line read
\* last, which is the one being written: none skipped, none duplicated, and
\* none held back until the end of the stream.
C20_ForwardsFirstTokens ==
    /\ IsPrefix(linesRead, revInput)
    /\ IsPrefix(idsWritten, FirstTokens(linesRead))
    /\ cat_file = "running" =>
           idsWritten \o (IF writer = "writing" THEN <<writerOid>> ELSE <<>>)
               = FirstTokens(linesRead)
    /\ writer = "done" /\ cat_file = "running" /\ exitStatus.rev = 0 =>
           idsWritten = FirstTokens(revInput)

\* ------------------------------------------------------------------ C21

\* The ids the forwarder took from the lines it read without error.
RECURSIVE TokensTaken(_)
TokensTaken(lines) ==
    IF lines = <<>> THEN <<>>
    ELSE (IF ReadsOk(Head(lines)) /\ Len(Head(lines)) > 0
          THEN <<Head(lines)[1]>> ELSE <<>>) \o TokensTaken(Tail(lines))

\* C21: when get_unmerged_blobs has returned Ok, the probe's output has been
\* read to its end, the forwarder thread has ended and been joined and both
\* processes have been waited on; and once both processes were started the
\* call returns Ok whatever happened in the forwarder (a failed write, a line
\* it could not read) and whatever the processes' exit statuses are.
C21_ReturnsAfterJoins ==
    /\ (mainPc = "returned" /\ pipeRet = "Ok") =>
           /\ cat_stdout = <<>>
           /\ writer = "done"
           /\ rev_list = "reaped"
           /\ cat_file = "reaped"
    /\ (mainPc = "returned" /\ cat_file # "none") => pipeRet = "Ok"
    /\ mainPc \in {"wait_rev", "wait_cat"} => writer = "done" /\ cat_stdout = <<>>
    /\ mainPc = "wait_cat" => rev_list = "reaped"

\* The call has returned Ok although cat-file exited with a non-zero status,
\* the forwarder could not read a line and a write of the forwarder failed.
C21_Witness ==
    /\ mainPc = "returned"
    /\ pipeRet = "Ok"
    /\ exitStatus.cat = 1
    /\ \E k \in DOMAIN linesRead : ~ReadsOk(linesRead[k])
    /\ Len(idsWritten) < Len(TokensTaken(linesRead))

\* ------------------------------------------------------------------ C22

\* C22: in a run of analyze_branches, get_unmerged_blobs is called at most
\* once for a branch of the list at any time, a call is made for a branch
\* that has none yet, and when collect() has returned it has been called
\* exactly once for every branch, whether the call failed, returned an
\* empty map or returned objects.
C22_OneCallPerBranch ==
    /\ [](/\ \A i \in DOMAIN calls : calls[i] <= 1
          /\ pc \in {"collect", "merge", "weights"} =>
                 DOMAIN calls = Indices(Len(branch_names))
          /\ pc \in {"merge", "weights"} => \A i \in DOMAIN calls : calls[i] = 1)
    /\ [][\A i \in DOMAIN calls :
              (i \in DOMAIN calls' /\ calls'[i] # calls[i]) =>
                  calls[i] = 0 /\ task[i] = "idle"]_vars

\* The run is past the calls: one branch's call failed, the other's returned
\* an empty map, and each was called once.
C22_Witness ==
    /\ pc = "weights"
    /\ DOMAIN calls = {0, 1}
    /\ calls[0] = 1 /\ calls[1] = 1
    /\ ~get_unmerged_blobs(gitRuns[0]).ok
    /\ get_unmerged_blobs(gitRuns[1]).ok
    /\ DOMAIN GivenMap(1) = {}

\* ------------------------------------------------------------------ C23

\* C23: also when branches report different sizes for one id, the size
\* recorded for the id after the merge is the one reported by the
\* lowest-indexed branch whose map holds it, and it is that size which every
\* contributor's entry counts for the id, in whatever order the tasks
\* completed.
C23_SizeOfLowestIndex ==
    /\ pc = "weights" =>
           \A o \in DOMAIN object_map : object_map[o].size = GivenSize(o)
    /\ Returned =>
           \A i \in DOMAIN gitRuns : \A k \in EntriesOf(i) :
               results[k].total_size = SumGiven(DOMAIN GivenMap(i))

\* The run has returned after the second branch's task completed first; both
\* branches hold x alone, with different sizes, and the second branch's entry
\* counts the size the first branch reported.
C23_Witness ==
    /\ Returned
    /\ completion = <<1, 0>>
    /\ DOMAIN GivenMap(0) = {"x"}
    /\ DOMAIN GivenMap(1) = {"x"}
    /\ GivenMap(0)["x"] > GivenMap(1)["x"]
    /\ \E k \in EntriesOf(1) : results[k].total_size = GivenMap(0)["x"]

\* ------------------------------------------------------------------ C24

\* C24: when get_unmerged_blobs has returned, by whichever path, every process
\* it started has been waited on and the forwarder thread, if it was started,
\* has ended.
C24_NothingLeftBehind ==
    mainPc = "returned" =>
        /\ rev_list \in {"none", "reaped"}
        /\ cat_file \in {"none", "reaped"}
        /\ writer \in {"none", "done"}

====
